---- MODULE Spec2Model ----
(***************************************************************************)
(* A model of src/bot.py: the Slack concierge bot that drives the gemini   *)
(* CLI through a chain of models (GeminiAgent) and carries a Snyk alert    *)
(* through plan -> approve -> fix -> approve -> commit                     *)
(* (SnykWorkflowHandler), with the case's identity kept in the button      *)
(* payloads of the Slack transcript.                                       *)
(*                                                                         *)
(* Strings are sequences of tokens: "nl" is a line break, "sp" a blank,    *)
(* "op" one of the opener prefixes of _preamble_patterns, "c" any other    *)
(* character; a fixed literal of the code is one token named by its text.  *)
(***************************************************************************)
EXTENDS Integers, Sequences, FiniteSets, Bags, TLC

VARIABLES
    transcript,   \* the Slack channel: thread -> its messages, oldest first
    fs,           \* PROJECTS_ROOT_DIR: directory name -> the project cloned there
    alerts,       \* running handle_snyk_alert invocations
    handlers,     \* the bag of running button handlers (one per click)
    clicked,      \* how many buttons were clicked so far
    stages,       \* thread ts -> the stages its case has entered, in order
    agentLog,     \* the gemini.run calls made so far
    ended,        \* the button handlers that returned or raised, with how
    gitLog,       \* thread ts -> the git commands setup_repository ran for it
    call,         \* <<the arguments>> of a function applied on its own, or <<>>
    ret           \* <<its result>> once it returned

vars == <<transcript, fs, alerts, handlers, clicked, stages, agentLog, ended, gitLog, call, ret>>

None == "none"

----------------------------------------------------------------------------
(* Strings *)

Whitespace == {"nl", "sp"}

\* str.strip(): leading and trailing whitespace removed
RECURSIVE LStrip(_)
LStrip(s) ==
    IF s # <<>> /\ Head(s) \in Whitespace THEN LStrip(Tail(s)) ELSE s

RECURSIVE RStrip(_)
RStrip(s) ==
    IF s # <<>> /\ s[Len(s)] \in Whitespace
    THEN RStrip(SubSeq(s, 1, Len(s) - 1))
    ELSE s

Strip(s) == RStrip(LStrip(s))

\* str.startswith(prefix)
StartsWith(s, prefix) ==
    /\ Len(s) >= Len(prefix)
    /\ SubSeq(s, 1, Len(prefix)) = prefix

----------------------------------------------------------------------------
(* GeminiAgent *)

\* the result of one subprocess.run of the gemini CLI: it exits 0, exits
\* non-zero, or the call raises (err is then str(e))
Exit0 == "exit0"
NonZero == "nonzero"
Raises == "raises"

\* str.split(","): the items between the commas
RECURSIVE SplitCommaFrom(_, _)
SplitCommaFrom(s, item) ==
    IF s = <<>> THEN <<item>>
    ELSE IF Head(s) = "," THEN <<item>> \o SplitCommaFrom(Tail(s), <<>>)
    ELSE SplitCommaFrom(Tail(s), Append(item, Head(s)))

\* os.environ.get(name, default)
EnvGet(env, name, default) == IF name \in DOMAIN env THEN env[name] ELSE default

\* _get_model_list: the primary model (the default when the variable is
\* unset) followed by the stripped non-blank items of the fallback variable
RECURSIVE StrippedNonBlank(_)
StrippedNonBlank(items) ==
    IF items = <<>> THEN <<>>
    ELSE IF Strip(Head(items)) # <<>>
         THEN <<Strip(Head(items))>> \o StrippedNonBlank(Tail(items))
         ELSE StrippedNonBlank(Tail(items))

GetModelList(env, primary_env, default_val, fallback_env) ==
    LET primary == EnvGet(env, primary_env, default_val)
        fallbacks == SplitCommaFrom(EnvGet(env, fallback_env, <<>>), <<>>)
    IN  <<primary>> \o StrippedNonBlank(fallbacks)

\* a faulty variant, for comparison: the loop goes on after a model exited 0
RECURSIVE ExecNoShortCircuit(_, _, _, _, _)
ExecNoShortCircuit(models, outcomes, last_stdout, last_stderr, invoked) ==
    IF models = <<>>
    THEN [stdout |-> last_stdout, stderr |-> last_stderr, invoked |-> invoked]
    ELSE LET model == Head(models)
             process == Head(outcomes)
         IN  CASE process.kind = Exit0 ->
                    ExecNoShortCircuit(Tail(models), Tail(outcomes),
                                       Strip(process.stdout), <<>>,
                                       Append(invoked, model))
               [] process.kind = NonZero ->
                    ExecNoShortCircuit(Tail(models), Tail(outcomes),
                                       Strip(process.stdout), Strip(process.stderr),
                                       Append(invoked, model))
               [] OTHER ->
                    ExecNoShortCircuit(Tail(models), Tail(outcomes),
                                       last_stdout, process.err,
                                       Append(invoked, model))

\* a faulty variant, for comparison: a failure's output is recorded only when none was recorded yet
RECURSIVE ExecKeepFirstFailure(_, _, _, _, _)
ExecKeepFirstFailure(models, outcomes, last_stdout, last_stderr, invoked) ==
    IF models = <<>>
    THEN [stdout |-> last_stdout, stderr |-> last_stderr, invoked |-> invoked]
    ELSE LET model == Head(models)
             process == Head(outcomes)
             first == invoked = <<>>
         IN  CASE process.kind = Exit0 ->
                    [stdout |-> Strip(process.stdout), stderr |-> <<>>,
                     invoked |-> Append(invoked, model)]
               [] process.kind = NonZero ->
                    ExecKeepFirstFailure(Tail(models), Tail(outcomes),
                        IF first THEN Strip(process.stdout) ELSE last_stdout,
                        IF first THEN Strip(process.stderr) ELSE last_stderr,
                        Append(invoked, model))
               [] OTHER ->
                    ExecKeepFirstFailure(Tail(models), Tail(outcomes),
                        last_stdout,
                        IF first THEN process.err ELSE last_stderr,
                        Append(invoked, model))

\* the loop of _execute_with_fallback over the models left, outcomes being
\* what each subprocess.run would do; invoked lists the models run so far
RECURSIVE ExecLoop(_, _, _, _, _)
ExecLoop(models, outcomes, last_stdout, last_stderr, invoked) ==
    IF models = <<>>
    THEN [stdout |-> last_stdout, stderr |-> last_stderr, invoked |-> invoked]
    ELSE LET model == Head(models)
             process == Head(outcomes)
         IN  CASE process.kind = Exit0 ->
                    [stdout |-> Strip(process.stdout), stderr |-> <<>>,
                     invoked |-> Append(invoked, model)]
               [] process.kind = NonZero ->
                    ExecLoop(Tail(models), Tail(outcomes),
                             Strip(process.stdout), Strip(process.stderr),
                             Append(invoked, model))
               [] OTHER ->
                    ExecLoop(Tail(models), Tail(outcomes),
                             last_stdout, process.err,
                             Append(invoked, model))

ExecuteWithFallback(models, outcomes) ==
    ExecLoop(models, outcomes, <<>>, <<>>, <<>>)

\* _preamble_patterns.match(stripped): the stripped line begins with an opener
MatchesPreamble(stripped) == stripped # <<>> /\ Head(stripped) = "op"

\* str.splitlines(): every "nl" ends a line; what follows the last one is a
\* line only when it is not empty
RECURSIVE SplitLinesFrom(_, _)
SplitLinesFrom(s, line) ==
    IF s = <<>> THEN (IF line = <<>> THEN <<>> ELSE <<line>>)
    ELSE IF Head(s) = "nl" THEN <<line>> \o SplitLinesFrom(Tail(s), <<>>)
    ELSE SplitLinesFrom(Tail(s), Append(line, Head(s)))

SplitLines(s) == SplitLinesFrom(s, <<>>)

\* "\n".join(lines)
RECURSIVE JoinLines(_)
JoinLines(lines) ==
    IF lines = <<>> THEN <<>>
    ELSE IF Len(lines) = 1 THEN lines[1]
    ELSE lines[1] \o <<"nl">> \o JoinLines(Tail(lines))

\* the loop of _strip_preamble from line i (1-based): the index of the first
\* line that is not blank and matches no opener, and the initial value of
\* first_content_idx (line 1 here, 0 in the code) when the loop never breaks
RECURSIVE FirstContentIdx(_, _)
FirstContentIdx(lines, i) ==
    IF i > Len(lines) THEN 1
    ELSE LET stripped == Strip(lines[i])
         IN  IF stripped = <<>> THEN FirstContentIdx(lines, i + 1)
             ELSE IF ~MatchesPreamble(stripped) THEN i
             ELSE FirstContentIdx(lines, i + 1)

StripPreamble(text) ==
    LET lines == SplitLines(text)
        first_content_idx == FirstContentIdx(lines, 1)
    IN  Strip(JoinLines(SubSeq(lines, first_content_idx, Len(lines))))

ErrorOutputPrefix == <<"Error output:">>
NoOutputText == <<"(No output from gemini)">>
SummarizationFailedPrefix == <<"Summarization failed: ">>

\* summarize: text is what it returns, invoked the flash models it ran
Summarize(raw_text, flash_models, flash_outcomes) ==
    IF raw_text = <<>> \/ StartsWith(raw_text, ErrorOutputPrefix)
    THEN [text |-> raw_text, invoked |-> <<>>, exhausted |-> FALSE]
    ELSE LET r == ExecuteWithFallback(flash_models, flash_outcomes)
         IN  [text |-> IF r.stdout # <<>> THEN r.stdout
                       ELSE SummarizationFailedPrefix \o r.stderr,
              invoked |-> r.invoked,
              exhausted |-> \A i \in 1..Len(flash_outcomes) : flash_outcomes[i].kind # Exit0]

\* run: text is what it returns; pro and flash list the models each step ran;
\* exhausted tells that no model of the pro chain exited 0
GeminiRun(pro_models, pro_outcomes, flash_models, flash_outcomes) ==
    LET r == ExecuteWithFallback(pro_models, pro_outcomes)
        raw_stdout == StripPreamble(r.stdout)
        exhausted == \A i \in 1..Len(pro_outcomes) : pro_outcomes[i].kind # Exit0
    IN  IF raw_stdout = <<>> /\ r.stderr # <<>>
        THEN [text |-> ErrorOutputPrefix \o <<"nl">> \o r.stderr,
              pro |-> r.invoked, flash |-> <<>>, exhausted |-> exhausted,
              sumExhausted |-> FALSE]
        ELSE IF raw_stdout = <<>>
        THEN [text |-> NoOutputText,
              pro |-> r.invoked, flash |-> <<>>, exhausted |-> exhausted,
              sumExhausted |-> FALSE]
        ELSE LET sm == Summarize(raw_stdout, flash_models, flash_outcomes)
             IN  [text |-> sm.text, pro |-> r.invoked, flash |-> sm.invoked,
                  exhausted |-> exhausted, sumExhausted |-> sm.exhausted]

----------------------------------------------------------------------------
(* ProjectManager *)

\* a project identifier "org/repo" is <<org, repo>>; split("/")[-1] is its
\* last segment
RepoName(project_name) == project_name[Len(project_name)]

ProjectsRoot == "./projects"

\* os.path.join(self.projects_root, repo_name)
TargetDir(project_name) == <<ProjectsRoot, RepoName(project_name)>>

\* the tokens that are no part of an org or repo name
NotName == {"nl", "sp", "Project:", "!ghost", "hourglass"}

\* re.search(r"Project:\s*(?:<[^>]+\|)?(org/repo)", text): the identifier
\* <<org, repo>> after the first "Project:" label that one follows, <<>> when
\* there is none
SearchProject(text) ==
    LET at == {i \in 1..(Len(text) - 2) :
                  /\ text[i] = "Project:"
                  /\ text[i + 1] \notin NotName
                  /\ text[i + 2] \notin NotName}
    IN  IF at = {} THEN <<>>
        ELSE LET i == CHOOSE k \in at : \A j \in at : k <= j
             IN  <<text[i + 1], text[i + 2]>>

\* extract_snyk_project: the event's text, then each attachment's fallback and
\* text, are searched in that order
TextsToCheck(event) ==
    LET RECURSIVE Fields(_)
        Fields(atts) ==
            IF atts = <<>> THEN <<>>
            ELSE <<Head(atts).fallback, Head(atts).text>> \o Fields(Tail(atts))
    IN  <<event.text>> \o Fields(event.attachments)

RECURSIVE FirstMatch(_)
FirstMatch(texts) ==
    IF texts = <<>> THEN <<>>
    ELSE IF SearchProject(Head(texts)) # <<>> THEN SearchProject(Head(texts))
    ELSE FirstMatch(Tail(texts))

ExtractSnykProject(event) == FirstMatch(TextsToCheck(event))

\* what fs holds for a directory that does not exist
NoProject == <<>>

\* a faulty variant, for comparison: a failed git clone is ignored (check=False)
SetupCloneUnchecked(project_name, dirs, git_ok) ==
    LET repo_name == RepoName(project_name)
    IN  IF dirs[repo_name] = NoProject
        THEN [raised |-> FALSE, target_dir |-> TargetDir(project_name),
              dirs |-> IF git_ok THEN [dirs EXCEPT ![repo_name] = project_name] ELSE dirs,
              ran |-> "clone"]
        ELSE IF git_ok
             THEN [raised |-> FALSE, target_dir |-> TargetDir(project_name),
                   dirs |-> dirs, ran |-> "fetch"]
             ELSE [raised |-> TRUE, target_dir |-> <<>>, dirs |-> dirs, ran |-> "fetch"]

\* setup_repository: dirs maps a directory of the root to the project cloned
\* there (NoProject: no such directory); git_ok tells whether the one git command
\* it runs exits 0. check=True raises CalledProcessError otherwise. ran names
\* the git command run (once).
SetupRepository(project_name, dirs, git_ok) ==
    LET repo_name == RepoName(project_name)
    IN  IF dirs[repo_name] = NoProject
        THEN IF git_ok
             THEN [raised |-> FALSE, target_dir |-> TargetDir(project_name),
                   dirs |-> [dirs EXCEPT ![repo_name] = project_name], ran |-> "clone"]
             ELSE [raised |-> TRUE, target_dir |-> <<>>, dirs |-> dirs, ran |-> "clone"]
        ELSE IF git_ok
             THEN [raised |-> FALSE, target_dir |-> TargetDir(project_name),
                   dirs |-> dirs, ran |-> "fetch"]
             ELSE [raised |-> TRUE, target_dir |-> <<>>, dirs |-> dirs, ran |-> "fetch"]

----------------------------------------------------------------------------
(* SlackUIManager *)

SLACK_TEXT_LIMIT == 3000

\* "\n\n... (文字数制限のため以下略)": 19 characters
TruncationSuffix ==
    <<"nl", "nl", ".", ".", ".", "sp", "(",
      "k1", "k2", "k3", "k4", "k5", "k6", "k7", "k8", "k9", "k10", "k11", ")">>

\* text[:n] of Python: a negative n counts from the end
SliceTo(text, n) ==
    LET stop == IF n >= 0 THEN (IF n < Len(text) THEN n ELSE Len(text))
                ELSE (IF Len(text) + n > 0 THEN Len(text) + n ELSE 0)
    IN  SubSeq(text, 1, stop)

SafeTruncate(text, limit) ==
    IF Len(text) <= limit THEN text
    ELSE SliceTo(text, limit - Len(TruncationSuffix)) \o TruncationSuffix

\* re.match(r"!ghost\s+(.*)", text): the text begins with the command and
\* whitespace after it
GhostMatch(text) ==
    /\ Len(text) >= 2
    /\ text[1] = "!ghost"
    /\ text[2] \in Whitespace

\* re.sub(r"^!ghost\s+", "", msg_text)
StripCommand(msg_text) ==
    IF GhostMatch(msg_text) THEN LStrip(Tail(msg_text)) ELSE msg_text

\* the loop of build_thread_context (lines 199-208) over the messages left:
\* the entries it appends to conversation
RECURSIVE Conversation(_, _)
Conversation(messages, bot_user_id) ==
    IF messages = <<>> THEN <<>>
    ELSE LET msg == Head(messages)
             msg_text == Strip(msg.text)
             rest == Conversation(Tail(messages), bot_user_id)
         IN  IF msg_text = <<>> THEN rest
             ELSE IF msg.user = bot_user_id
                  THEN IF Head(msg_text) = "hourglass" THEN rest
                       ELSE <<<<"Assistant: ">> \o msg_text>> \o rest
                  ELSE LET clean_text == Strip(StripCommand(msg_text))
                       IN  IF clean_text # <<>>
                           THEN <<<<"User: ">> \o clean_text>> \o rest
                           ELSE rest

\* a faulty variant, for comparison: the final entry is dropped whoever spoke it
ContextDropsFinalEntry(history, bot_user_id) ==
    IF ~history.ok THEN <<>>
    ELSE IF Len(history.messages) <= 1 THEN <<>>
    ELSE LET conversation == Conversation(history.messages, bot_user_id)
             n == Len(conversation)
         IN  JoinLines(SubSeq(conversation, 1, n - 1))

\* build_thread_context: history is what conversations_replies gives, its
\* messages oldest first, or not ok when the call raises
BuildThreadContext(history, bot_user_id) ==
    IF ~history.ok THEN <<>>
    ELSE IF Len(history.messages) <= 1 THEN <<>>
    ELSE LET conversation == Conversation(history.messages, bot_user_id)
             n == Len(conversation)
             kept == IF n > 0 /\ Head(conversation[n]) = "User: "
                     THEN SubSeq(conversation, 1, n - 1)
                     ELSE conversation
         IN  JoinLines(kept)

\* json.dumps of a dict with string values: its keys and values in order
JsonDumps(keys, dict) ==
    LET RECURSIVE Items(_)
        Items(ks) == IF ks = <<>> THEN <<>>
                     ELSE <<Head(ks), dict[Head(ks)]>> \o Items(Tail(ks))
    IN  <<"{">> \o Items(keys) \o <<"}">>

\* the value json.loads keeps for key: the one of its last occurrence
JsonValueOf(s, key) ==
    LET n == (Len(s) - 2) \div 2
        at == CHOOSE i \in 1..n :
                  /\ s[2 * i] = key
                  /\ \A j \in 1..n : s[2 * j] = key => j <= i
    IN  s[1 + 2 * at]

\* json.loads: ok and the dict of a well-formed text; not ok for a text it
\* cannot parse (json.JSONDecodeError)
JsonLoads(s) ==
    IF /\ Len(s) >= 2
       /\ s[1] = "{"
       /\ s[Len(s)] = "}"
       /\ Len(s) % 2 = 0
    THEN [ok |-> TRUE,
          dict |-> [key \in {s[2 * i] : i \in 1..((Len(s) - 2) \div 2)} |->
                        JsonValueOf(s, key)]]
    ELSE [ok |-> FALSE, dict |-> <<>>]

\* a faulty variant, for comparison: the two values under each other's key
ActionValueSwapped(project_name, target_dir) ==
    JsonDumps(<<"project", "dir">>, [project |-> target_dir, dir |-> project_name])

\* the value both create_approval_blocks and create_commit_blocks give their
\* approve button
ActionValue(project_name, target_dir) ==
    JsonDumps(<<"project", "dir">>, [project |-> project_name, dir |-> target_dir])

\* the action_ids of the buttons a message shows, by the blocks it holds
Buttons(kind) ==
    CASE kind = "approval" -> {"approve_snyk_fix", "cancel_workflow"}
      [] kind = "commit" -> {"approve_commit", "cancel_workflow"}
      [] OTHER -> {}

----------------------------------------------------------------------------
(* The environment the bot is started in *)

\* .env: one fallback for the pro chain, none for the flash chain
Environ ==
    [GEMINI_PRO_FALLBACK_MODEL |-> <<"sp", "gemini-2.5-pro", ",">>,
     SNYK_CHANNEL_ID |-> <<"C_SNYK">>]

\* GeminiAgent.__init__
ProModels ==
    GetModelList(Environ, "GEMINI_PRO_MODEL", <<"gemini-3-pro-preview">>,
                 "GEMINI_PRO_FALLBACK_MODEL")
FlashModels ==
    GetModelList(Environ, "GEMINI_FLASH_MODEL", <<"gemini-3-flash-preview">>,
                 "GEMINI_FLASH_FALLBACK_MODEL")

\* ConciergeBot.__init__
SnykChannelId == EnvGet(Environ, "SNYK_CHANNEL_ID", <<>>)

Outcome(kind, stdout, stderr, err) ==
    [kind |-> kind, stdout |-> stdout, stderr |-> stderr, err |-> err]

\* what a gemini process does in the workflow: it answers, or it fails with a
\* message on stderr
WorkflowOutcomes ==
    {Outcome(Exit0, <<"c">>, <<>>, <<>>), Outcome(NonZero, <<>>, <<"c">>, <<>>)}

\* in the workflow the summarizing model answers
WorkflowSummaries == {Outcome(Exit0, <<"c">>, <<>>, <<>>)}

\* every result gemini.run can give in the workflow
WorkflowRuns ==
    {LET r == GeminiRun(ProModels, po, FlashModels, fo)
     IN  [text |-> r.text, exhausted |-> r.exhausted] :
        po \in [1..Len(ProModels) -> WorkflowOutcomes],
        fo \in [1..Len(FlashModels) -> WorkflowSummaries]}

\* git status -s after a fix: a changed file
GitStatuses == {<<"M", "sp", "c", "nl">>}

Users == {"U1", "U2"}

\* how many message events are received, and how many buttons are clicked
MaxAlerts == 1
MaxClicks == 2

----------------------------------------------------------------------------
(* The Slack transcript *)

\* a message as chat_postMessage / say leaves it: posted and sent keep the
\* kind and the button value it was posted with, kind and the rest are what
\* chat_update last made of it. exhausted records that the gemini.run whose
\* result the message renders had every model of its pro chain fail. event is
\* <<the event>> of a message that came in, <<>> for one the bot posted.
Msg(thread, kind, value, body, by, exhausted) ==
    [thread |-> thread, posted |-> kind, kind |-> kind, value |-> value,
     sent |-> value, body |-> body, by |-> by, exhausted |-> exhausted,
     event |-> <<>>]

\* the message whose arrival is the event handle_message_events is called with
Inbound(thread, event) ==
    [Msg(thread, "message", <<>>, event.text, None, FALSE) EXCEPT !.event = <<event>>]

\* chat_update(ts=..., text=..., blocks=[one section]): the buttons are gone
ChatUpdate(m, kind, body, by) ==
    [m EXCEPT !.kind = kind, !.value = <<>>, !.body = body, !.by = by]

\* the section text of create_approval_blocks
ApprovalSectionText(plan_result) ==
    <<"PlanCreated", "nl">> \o SafeTruncate(plan_result, SLACK_TEXT_LIMIT)
        \o <<"nl", "nl", "MayIFix">>

\* result_text of handle_approve_fix
FixResultText(fix_result, git_status) ==
    <<"FixDone", "nl", "nl">> \o SafeTruncate(fix_result, SLACK_TEXT_LIMIT) \o <<"nl">>
        \o (IF git_status # <<>>
            THEN <<"nl", "ChangedFiles", "nl", "fence", "nl">> \o git_status \o <<"fence">>
            ELSE <<>>)

\* A thread is numbered by the order its first message arrived in, and a
\* message's ts is <<thread, position in the thread>>: the code uses a ts only
\* to name a message, and thread_ts to name its thread.
Threads == DOMAIN transcript
MsgIds == UNION {{<<t, i>> : i \in DOMAIN transcript[t]} : t \in Threads}
MsgAt(m) == transcript[m[1]][m[2]]
NextTs(t) == <<t, Len(transcript[t]) + 1>>
NoTs == <<0, 0>>

\* chat_postMessage(thread_ts=t) and say(thread_ts=t)
Post(t, msg) == [transcript EXCEPT ![t] = Append(@, msg)]

\* chat_update(ts=m)
Updated(m, msg) == [transcript EXCEPT ![m[1]] = [@ EXCEPT ![m[2]] = msg]]

----------------------------------------------------------------------------
(* ConciergeBot.handle_message_events and SnykWorkflowHandler.handle_snyk_alert *)

\* ghost_match.group(1).strip(): what follows that whitespace up to the end
\* of its line, stripped
GhostInstruction(text) ==
    LET rest == LStrip(Tail(text))
        lines == SplitLines(rest)
    IN  IF lines = <<>> THEN <<>> ELSE Strip(lines[1])

\* a faulty variant, for comparison: the alert channel is looked at before the command
RouteAlertFirst(event) ==
    IF event.channel = SnykChannelId /\ event.bot THEN "alert"
    ELSE IF GhostMatch(event.text) THEN "ghost"
    ELSE "ignore"

\* handle_message_events: "!ghost ..." goes to the command, a bot's message in
\* the Snyk channel to the alert handler, anything else nowhere
Route(event) ==
    IF GhostMatch(event.text) THEN "ghost"
    ELSE IF event.channel = SnykChannelId /\ event.bot THEN "alert"
    ELSE "ignore"

NoAttachment == <<>>
Event(text, attachments, channel, bot) ==
    [text |-> text, attachments |-> attachments, channel |-> channel, bot |-> bot]

\* Snyk's alert text for a project
AlertText(project_name) == <<"Project:">> \o project_name

\* the messages that arrive while the workflow is followed: Snyk's alert for
\* org/app, and a bot's message naming no project
WorkflowEvents ==
    {Event(AlertText(<<"org", "app">>), NoAttachment, <<"C_SNYK">>, TRUE),
     Event(<<"c">>, NoAttachment, <<"C_SNYK">>, TRUE)}

\* the message events received so far: each one opens a thread
AlertCount == Len(transcript)

\* auth_test()["user_id"]
BotUserId == "B_CONCIERGE"

\* full_prompt of _handle_ghost_command
FullPrompt(context_text, instruction) ==
    <<"HistoryFollows", "nl", "---", "nl">> \o context_text
        \o <<"nl", "---", "nl", "nl", "Instruction: ">> \o instruction

\* a running handle_message_events invocation, at its next blocking call
Running(thread, pc, project_name, prompt) ==
    [thread |-> thread, project |-> project_name, pc |-> pc, target_dir |-> <<>>,
     prompt |-> prompt]

\* a message event: handle_message_events (lines 374-387) and what it calls up
\* to the first blocking call: _handle_ghost_command up to its say (lines
\* 390-393), or handle_snyk_alert up to its say (lines 285-292). The event's
\* message opens a thread, so conversations_replies gives that one message.
MessageEvent(event) ==
    /\ LET ts == Len(transcript) + 1     \* event["ts"]: a new thread
           project_name == ExtractSnykProject(event)
           history == [ok |-> TRUE,
                       messages |-> <<[user |-> "U1", text |-> event.text]>>]
       IN  CASE Route(event) = "ghost" ->
                  /\ transcript' = Append(transcript,
                         <<Inbound(ts, event),
                           Msg(ts, "processing", <<>>, <<"hourglass", "Processing">>,
                               None, FALSE)>>)
                  /\ alerts' = alerts \cup
                         {Running(ts, "ghost", <<>>,
                                  FullPrompt(BuildThreadContext(history, BotUserId),
                                             GhostInstruction(event.text)))}
             [] Route(event) = "alert" /\ project_name # <<>> ->
                  /\ transcript' = Append(transcript,
                         <<Inbound(ts, event),
                           Msg(ts, "investigating", <<>>,
                               <<"Investigating">> \o project_name, None, FALSE)>>)
                  /\ alerts' = alerts \cup {Running(ts, "setup", project_name, <<>>)}
             [] OTHER ->
                  /\ transcript' = Append(transcript, <<Inbound(ts, event)>>)
                  /\ UNCHANGED alerts
    /\ stages' = Append(stages, <<>>)
    /\ gitLog' = Append(gitLog, <<>>)
    /\ UNCHANGED <<fs, handlers, clicked, agentLog, ended, call, ret>>

\* final_text of _handle_ghost_command: a response of several lines is fenced
FinalText(response_text) ==
    IF \E i \in DOMAIN response_text : response_text[i] = "nl"
    THEN <<"fence", "nl">> \o response_text \o <<"nl", "fence">>
    ELSE response_text

\* _handle_ghost_command, lines 394-399: the prompt is run in no working
\* directory and its result replaces the processing message
GhostRun(a, r) ==
    /\ a \in alerts
    /\ a.pc = "ghost"
    /\ agentLog' = agentLog \cup
           {[prompt |-> "ghost", cwd |-> <<>>, thread |-> a.thread,
             msg |-> <<a.thread, 1>>, action |-> "message", user |-> None]}
    /\ transcript' = Updated(<<a.thread, 2>>,
           ChatUpdate(MsgAt(<<a.thread, 2>>), "answer", FinalText(r.text), None))
    /\ alerts' = alerts \ {a}
    /\ UNCHANGED <<fs, handlers, clicked, stages, ended, gitLog, call, ret>>

\* handle_snyk_alert, line 295: setup_repository, and the except branch when
\* git fails
AlertSetup(a, git_ok) ==
    /\ a \in alerts
    /\ a.pc = "setup"
    /\ LET r == SetupRepository(a.project, fs, git_ok)
       IN  /\ fs' = r.dirs
           /\ gitLog' = [gitLog EXCEPT ![a.thread] = Append(@, [cmd |-> r.ran, ok |-> git_ok])]
           /\ IF r.raised
              THEN /\ transcript' = Post(a.thread,
                          Msg(a.thread, "plan_error", <<>>, <<"PlanFailed">>, None, FALSE))
                   /\ alerts' = alerts \ {a}
              ELSE /\ alerts' = (alerts \ {a}) \cup
                          {[a EXCEPT !.pc = "plan", !.target_dir = r.target_dir]}
                   /\ UNCHANGED transcript
    /\ UNCHANGED <<handlers, clicked, stages, agentLog, ended, call, ret>>

\* handle_snyk_alert, lines 296-302: the plan prompt, then the approval
\* controls whatever gemini.run returned
AlertPlan(a, r) ==
    /\ a \in alerts
    /\ a.pc = "plan"
    /\ agentLog' = agentLog \cup
           {[prompt |-> "plan", cwd |-> a.target_dir, thread |-> a.thread,
             msg |-> <<a.thread, 1>>, action |-> "message", user |-> None]}
    /\ transcript' = Post(a.thread,
           Msg(a.thread, "approval", ActionValue(a.project, a.target_dir),
               ApprovalSectionText(r.text), None, r.exhausted))
    /\ stages' = [stages EXCEPT ![a.thread] = Append(@, "Proposed")]
    /\ alerts' = alerts \ {a}
    /\ UNCHANGED <<fs, handlers, clicked, ended, gitLog, call, ret>>

----------------------------------------------------------------------------
(* SnykWorkflowHandler: the button handlers *)

\* a faulty variant, for comparison: the two approve actions registered to each other's handler
RegisteredCrossed(action_id) ==
    CASE action_id = "approve_snyk_fix" -> "handle_commit_fix"
      [] action_id = "approve_commit" -> "handle_approve_fix"
      [] action_id = "cancel_workflow" -> "handle_cancel_workflow"

\* SnykWorkflowHandler.__init__: self.app.action(action_id)(handler)
Registered(action_id) ==
    CASE action_id = "approve_snyk_fix" -> "handle_approve_fix"
      [] action_id = "approve_commit" -> "handle_commit_fix"
      [] action_id = "cancel_workflow" -> "handle_cancel_workflow"

\* a dict without one of its keys, serialized
WithoutKey(value, key) ==
    LET d == JsonLoads(value).dict
        RECURSIVE Kept(_)
        Kept(ks) == IF ks = <<>> THEN <<>>
                    ELSE IF Head(ks) = key THEN Kept(Tail(ks))
                    ELSE <<Head(ks)>> \o Kept(Tail(ks))
    IN  JsonDumps(Kept(<<"project", "dir">>), d)

\* action["value"] as the callback carries it: the value the button was given,
\* or a damaged one (cut short, or a field lost); the cancel buttons have none
Delivered(m, action_id) ==
    IF action_id \notin Buttons(MsgAt(m).kind) THEN {}
    ELSE IF action_id = "cancel_workflow" THEN {<<>>}
    ELSE LET value == MsgAt(m).value
         IN  {value, <<"{">>, WithoutKey(value, "dir"), WithoutKey(value, "project")}

\* json.loads(action["value"]) and data["dir"] both succeed
Parses(value) ==
    LET data == JsonLoads(value)
    IN  data.ok /\ "dir" \in DOMAIN data.dict

WellFormed(value) ==
    LET data == JsonLoads(value)
    IN  data.ok /\ {"project", "dir"} \subseteq DOMAIN data.dict

\* someone clicks the button action_id that message m shows
Click(m, action_id) ==
    /\ m \in MsgIds
    /\ action_id \in Buttons(MsgAt(m).kind)
    /\ clicked < MaxClicks
    /\ clicked' = clicked + 1

\* body["message"].get("thread_ts", message_ts)
ThreadOf(m) == MsgAt(m).thread

\* a running handler: what it read from the body (only the cancel handler
\* reads body["user"]), where it is, and the calls it made so far to Slack,
\* gemini and git, in order; every handler begins with ack()
Handler(fn, user, m, action_id, value, pc) ==
    [fn |-> fn, user |-> user, msg |-> m, thread |-> ThreadOf(m), action |-> action_id,
     value |-> value, pc |-> pc, effects |-> <<"ack">>]

\* the handler after it made these calls
Did(h, effects) == [h EXCEPT !.effects = @ \o effects]

\* a handler that is over: outcome is "returned", "reported" (its except
\* branch said the error in the thread) or "raised" (the exception left the
\* handler); ran tells whether it called gemini.run, exhausted whether that
\* run had every pro model fail, posted is the ts of the message it posted
Ended(h, outcome, ran, exhausted, posted) ==
    [fn |-> h.fn, user |-> h.user, msg |-> h.msg, thread |-> h.thread,
     action |-> h.action, value |-> h.value, outcome |-> outcome, ran |-> ran,
     exhausted |-> exhausted, posted |-> posted, effects |-> h.effects]

AgentCall(prompt, h, cwd) ==
    [prompt |-> prompt, cwd |-> cwd, thread |-> h.thread, msg |-> h.msg,
     action |-> h.action, user |-> h.user]

\* data["dir"]
TargetDirOf(h) == JsonLoads(h.value).dict["dir"]

\* a faulty variant, for comparison: ack() comes after the payload is read
ParseThenAck(fn, m, action_id, value) ==
    /\ Click(m, action_id)
    /\ Registered(action_id) = fn
    /\ value \in Delivered(m, action_id)
    /\ LET h == Handler(fn, None, m, action_id, value, "update")
       IN  IF Parses(value)
           THEN /\ handlers' = handlers (+) SetToBag({h})
                /\ UNCHANGED ended
           ELSE /\ ended' = ended \cup
                       {Ended([h EXCEPT !.effects = <<>>], "raised", FALSE, FALSE, NoTs)}
                /\ UNCHANGED handlers
    /\ UNCHANGED <<transcript, fs, alerts, stages, agentLog, gitLog, call, ret>>

\* lines 308-314 and 332-338: ack(), then the body and the payload are read,
\* outside any try: a payload that does not parse or has no "dir" raises
AckAndParse(fn, m, action_id, value) ==
    /\ Click(m, action_id)
    /\ Registered(action_id) = fn
    /\ value \in Delivered(m, action_id)
    /\ LET h == Handler(fn, None, m, action_id, value, "update")
       IN  IF Parses(value)
           THEN /\ handlers' = handlers (+) SetToBag({h})
                /\ UNCHANGED ended
           ELSE /\ ended' = ended \cup {Ended(h, "raised", FALSE, FALSE, NoTs)}
                /\ UNCHANGED handlers
    /\ UNCHANGED <<transcript, fs, alerts, stages, agentLog, gitLog, call, ret>>

ApproveFixAck(m, action_id, value) ==
    AckAndParse("handle_approve_fix", m, action_id, value)

\* line 316: the clicked message becomes the running indicator
ApproveFixUpdate(h) ==
    /\ BagIn(h, handlers)
    /\ h.fn = "handle_approve_fix"
    /\ h.pc = "update"
    /\ transcript' = Updated(h.msg,
           ChatUpdate(MsgAt(h.msg), "fix_running", <<"FixRunning">>, None))
    /\ stages' = [stages EXCEPT ![h.thread] = Append(@, "Approved")]
    /\ handlers' = (handlers (-) SetToBag({h})) (+) SetToBag({[Did(h, <<"chat_update">>) EXCEPT !.pc = "run"]})
    /\ UNCHANGED <<fs, alerts, clicked, agentLog, ended, gitLog, call, ret>>

\* lines 318-329: the fix prompt, git status, then the commit controls
\* whatever gemini.run returned; data["project"] is read inside the try
ApproveFixRun(h, r, git_status) ==
    /\ BagIn(h, handlers)
    /\ h.fn = "handle_approve_fix"
    /\ h.pc = "run"
    /\ agentLog' = agentLog \cup {AgentCall("fix", h, TargetDirOf(h))}
    /\ LET data == JsonLoads(h.value).dict
           ts == NextTs(h.thread)
       IN  IF "project" \in DOMAIN data
           THEN /\ transcript' = Post(h.thread,
                       Msg(h.thread, "commit", ActionValue(data["project"], TargetDirOf(h)),
                           FixResultText(r.text, git_status), None, r.exhausted))
                /\ stages' = [stages EXCEPT ![h.thread] = Append(@, "Fixed")]
                /\ ended' = ended \cup
                       {Ended(Did(h, <<"gemini.run", "git status", "chat_postMessage">>),
                              "returned", TRUE, r.exhausted, ts)}
           ELSE /\ transcript' = Post(h.thread,
                       Msg(h.thread, "fix_error", <<>>, <<"FixFailed", "KeyError">>,
                           None, r.exhausted))
                /\ ended' = ended \cup
                       {Ended(Did(h, <<"gemini.run", "git status", "say">>),
                              "reported", TRUE, r.exhausted, ts)}
                /\ UNCHANGED stages
    /\ handlers' = handlers (-) SetToBag({h})
    /\ UNCHANGED <<fs, alerts, clicked, gitLog, call, ret>>

CommitFixAck(m, action_id, value) ==
    AckAndParse("handle_commit_fix", m, action_id, value)

\* line 340
CommitFixUpdate(h) ==
    /\ BagIn(h, handlers)
    /\ h.fn = "handle_commit_fix"
    /\ h.pc = "update"
    /\ transcript' = Updated(h.msg,
           ChatUpdate(MsgAt(h.msg), "commit_running", <<"CommitRunning">>, None))
    /\ stages' = [stages EXCEPT ![h.thread] = Append(@, "CommitApproved")]
    /\ handlers' = (handlers (-) SetToBag({h})) (+) SetToBag({[Did(h, <<"chat_update">>) EXCEPT !.pc = "run"]})
    /\ UNCHANGED <<fs, alerts, clicked, agentLog, ended, gitLog, call, ret>>

\* lines 342-347: the commit-and-push prompt and its result said in the thread
CommitFixRun(h, r) ==
    /\ BagIn(h, handlers)
    /\ h.fn = "handle_commit_fix"
    /\ h.pc = "run"
    /\ agentLog' = agentLog \cup {AgentCall("commit", h, TargetDirOf(h))}
    /\ transcript' = Post(h.thread,
           Msg(h.thread, "done", <<>>, <<"Done", "nl">> \o r.text, None, r.exhausted))
    /\ stages' = [stages EXCEPT ![h.thread] = Append(@, "Committed")]
    /\ ended' = ended \cup
           {Ended(Did(h, <<"gemini.run", "say">>), "returned", TRUE, r.exhausted,
                  NextTs(h.thread))}
    /\ handlers' = handlers (-) SetToBag({h})
    /\ UNCHANGED <<fs, alerts, clicked, gitLog, call, ret>>

\* lines 350-353: ack() and the body; the payload is not read
CancelAck(user, m, action_id) ==
    /\ Click(m, action_id)
    /\ Registered(action_id) = "handle_cancel_workflow"
    /\ handlers' = handlers (+)
           SetToBag({Handler("handle_cancel_workflow", user, m, action_id, <<>>, "update")})
    /\ UNCHANGED <<transcript, fs, alerts, stages, agentLog, ended, gitLog, call, ret>>

\* line 354: the clicked message becomes the notice naming the user
CancelUpdate(h) ==
    /\ BagIn(h, handlers)
    /\ h.fn = "handle_cancel_workflow"
    /\ h.pc = "update"
    /\ transcript' = Updated(h.msg,
           ChatUpdate(MsgAt(h.msg), "cancelled", <<"CancelledBy", h.user>>, h.user))
    /\ stages' = [stages EXCEPT ![h.thread] = Append(@, "Cancelled")]
    /\ ended' = ended \cup
           {Ended(Did(h, <<"chat_update">>), "returned", FALSE, FALSE, NoTs)}
    /\ handlers' = handlers (-) SetToBag({h})
    /\ UNCHANGED <<fs, alerts, clicked, agentLog, gitLog, call, ret>>

----------------------------------------------------------------------------
(* The workflow *)

Repos == {"app"}

Init ==
    /\ transcript = <<>>
    /\ fs \in [Repos -> {NoProject, <<"org", "app">>}]
    /\ alerts = {}
    /\ handlers = EmptyBag
    /\ clicked = 0
    /\ stages = <<>>   \* no thread yet
    /\ agentLog = {}
    /\ ended = {}
    /\ gitLog = <<>>
    /\ call = <<>>
    /\ ret = <<>>

ActionIds == {"approve_snyk_fix", "approve_commit", "cancel_workflow"}

Next ==
    \/ \E event \in WorkflowEvents : AlertCount < MaxAlerts /\ MessageEvent(event)
    \/ \E a \in alerts, git_ok \in BOOLEAN : AlertSetup(a, git_ok)
    \/ \E a \in alerts, r \in WorkflowRuns : AlertPlan(a, r)
    \/ \E m \in MsgIds, action_id \in ActionIds :
          \E value \in Delivered(m, action_id) : ApproveFixAck(m, action_id, value)
    \/ \E m \in MsgIds, action_id \in ActionIds :
          \E value \in Delivered(m, action_id) : CommitFixAck(m, action_id, value)
    \/ \E user \in Users, m \in MsgIds, action_id \in ActionIds :
          CancelAck(user, m, action_id)
    \/ \E h \in BagToSet(handlers) : ApproveFixUpdate(h)
    \/ \E h \in BagToSet(handlers), r \in WorkflowRuns, git_status \in GitStatuses :
          ApproveFixRun(h, r, git_status)
    \/ \E h \in BagToSet(handlers) : CommitFixUpdate(h)
    \/ \E h \in BagToSet(handlers), r \in WorkflowRuns : CommitFixRun(h, r)
    \/ \E h \in BagToSet(handlers) : CancelUpdate(h)

Spec == Init /\ [][Next]_vars

----------------------------------------------------------------------------
(* The workflow's properties *)

StageIn(t, stage) == \E i \in DOMAIN stages[t] : stages[t][i] = stage

\* C1: the fix prompt is issued only by the handler of an approve_snyk_fix
\* click on a message the plan stage posted, the commit prompt only by the
\* handler of an approve_commit click on a message posted after a fix run;
\* the stage entered next after Proposed is Approved or Cancelled, and
\* CommitApproved and Committed are entered only after Fixed.
ApprovalGatesFixAndCommit ==
    /\ \A c \in agentLog :
          /\ c.prompt = "fix" =>
                c.action = "approve_snyk_fix" /\ MsgAt(c.msg).posted = "approval"
          /\ c.prompt = "commit" =>
                c.action = "approve_commit" /\ MsgAt(c.msg).posted = "commit"
    /\ \A t \in DOMAIN stages : \A i \in DOMAIN stages[t] :
          /\ (stages[t][i] = "Proposed" /\ i < Len(stages[t])) =>
                stages[t][i + 1] \in {"Approved", "Cancelled"}
          /\ stages[t][i] \in {"CommitApproved", "Committed"} =>
                \E j \in 1..(i - 1) : stages[t][j] = "Fixed"

\* C1's case: a case went all the way to the commit prompt
CaseCommitted ==
    \E c \in agentLog :
        /\ c.prompt = "commit"
        /\ StageIn(c.thread, "Committed")
        /\ \E f \in agentLog : f.prompt = "fix" /\ f.thread = c.thread

\* C2: a fix run that failed (every model of the pro chain failed) ends with
\* the error said in the thread and without commit controls.
FailedFixPostsNoCommitControls ==
    \A e \in ended :
        (e.fn = "handle_approve_fix" /\ e.ran /\ e.exhausted) =>
            /\ e.outcome = "reported"
            /\ MsgAt(e.posted).posted = "fix_error"

\* a stage of the fix or the commit
WorkStages == {"Approved", "Fixed", "CommitApproved", "Committed"}

\* C3: once a cancel click is handled, the clicked message shows the notice
\* naming a user who cancelled it, and the case enters no stage of the fix or
\* the commit any more.
CancelStopsTheCase ==
    \A e \in ended :
        e.fn = "handle_cancel_workflow" =>
            /\ MsgAt(e.msg).kind = "cancelled"
            /\ \E c \in ended :
                  /\ c.fn = "handle_cancel_workflow"
                  /\ c.msg = e.msg
                  /\ MsgAt(e.msg).by = c.user
            /\ \A i, j \in DOMAIN stages[e.thread] :
                  (stages[e.thread][i] = "Cancelled" /\ i < j) =>
                      stages[e.thread][j] \notin WorkStages

StageRank(stage) ==
    CASE stage = "Proposed" -> 1
      [] stage = "Approved" -> 2
      [] stage = "Fixed" -> 3
      [] stage = "CommitApproved" -> 4
      [] stage = "Committed" -> 5
      [] stage = "Cancelled" -> 6

\* C4: the stages a case enters go strictly forward, Cancelled being the last
\* one, and none is entered twice.
StagesGoStrictlyForward ==
    \A t \in DOMAIN stages : \A i, j \in DOMAIN stages[t] :
        i < j => StageRank(stages[t][i]) < StageRank(stages[t][j])

\* C5: after a failed git fetch the alert is still handled: no error is said,
\* and the plan is under way or its approval controls are posted.
FetchFailureIsNotFatal ==
    \A t \in DOMAIN gitLog :
        (\E i \in DOMAIN gitLog[t] : gitLog[t][i] = [cmd |-> "fetch", ok |-> FALSE]) =>
            /\ \A i \in DOMAIN transcript[t] : transcript[t][i].posted # "plan_error"
            /\ \/ \E a \in alerts : a.thread = t /\ a.pc = "plan"
               \/ \E i \in DOMAIN transcript[t] : transcript[t][i].posted = "approval"

\* C6: after a failed git clone the plan stage is over: the clone was the one
\* git command run, the error is said in the thread, gemini was not called
\* and no approval controls are posted.
CloneFailureIsFatal ==
    \A t \in DOMAIN gitLog :
        (\E i \in DOMAIN gitLog[t] : gitLog[t][i] = [cmd |-> "clone", ok |-> FALSE]) =>
            /\ Len(gitLog[t]) = 1
            /\ \E i \in DOMAIN transcript[t] : transcript[t][i].posted = "plan_error"
            /\ \A i \in DOMAIN transcript[t] : transcript[t][i].posted # "approval"
            /\ \A c \in agentLog : c.thread # t
            /\ \A a \in alerts : a.thread # t

\* C6's case: a clone failed
CloneFailed ==
    \E t \in DOMAIN gitLog : gitLog[t] = <<[cmd |-> "clone", ok |-> FALSE]>>

\* C7: an approve handler given a payload that does not parse, or lacks
\* "project" or "dir", says so in the thread and does not call gemini.
MalformedPayloadIsReported ==
    \A e \in ended :
        (e.fn \in {"handle_approve_fix", "handle_commit_fix"} /\ ~WellFormed(e.value)) =>
            e.outcome = "reported" /\ ~e.ran

\* C8: a plan run in which every model of the pro chain failed posts no
\* approval controls.
ExhaustedPlanPostsNoControls ==
    \A m \in MsgIds : MsgAt(m).posted = "approval" => ~MsgAt(m).exhausted

\* the approval message of thread t, as it was posted
ApprovalsOf(t) == {i \in DOMAIN transcript[t] : transcript[t][i].posted = "approval"}

\* C15: the approval controls carry the project the alert named and the
\* directory setup_repository gave for it, the one the plan ran in; the fix
\* and the commit run in that directory, and the commit controls carry the
\* approval controls' value.
PayloadRoundTrips ==
    /\ \A t \in Threads : \A i \in DOMAIN transcript[t] :
          /\ transcript[t][i].posted = "approval" =>
                LET data == JsonLoads(transcript[t][i].sent)
                    project_name == ExtractSnykProject(transcript[t][1].event[1])
                IN  /\ data.ok
                    /\ DOMAIN data.dict = {"project", "dir"}
                    /\ data.dict["project"] = project_name
                    /\ data.dict["dir"] = TargetDir(project_name)
                    /\ \E c \in agentLog :
                          c.prompt = "plan" /\ c.thread = t /\ c.cwd = data.dict["dir"]
          /\ transcript[t][i].posted = "commit" =>
                \E j \in ApprovalsOf(t) :
                    j < i /\ transcript[t][i].sent = transcript[t][j].sent
    /\ \A c \in agentLog :
          c.prompt \in {"fix", "commit"} =>
              \E j \in ApprovalsOf(c.thread) :
                  c.cwd = JsonLoads(transcript[c.thread][j].sent).dict["dir"]

\* C15's case: the commit ran in the directory the approval controls named,
\* after the commit controls carried their value on
PayloadCameBack ==
    \E c \in agentLog :
        /\ c.prompt = "commit"
        /\ MsgAt(c.msg).posted = "commit"
        /\ \E j \in ApprovalsOf(c.thread) :
              /\ MsgAt(c.msg).sent = transcript[c.thread][j].sent
              /\ c.cwd = JsonLoads(transcript[c.thread][j].sent).dict["dir"]
              /\ c.cwd = TargetDir(<<"org", "app">>)

\* the calls are in the handler's order: ack() first and once, and in the
\* approve and commit handlers chat_update before gemini.run
AckedFirst(fn, effects) ==
    /\ effects # <<>>
    /\ effects[1] = "ack"
    /\ \A i \in 2..Len(effects) : effects[i] # "ack"
    /\ fn \in {"handle_approve_fix", "handle_commit_fix"} =>
          \A i \in DOMAIN effects :
              effects[i] = "gemini.run" =>
                  \E j \in 1..(i - 1) : effects[j] = "chat_update"

\* C18: every button handler calls ack() before anything else, and when the
\* approve or commit handler calls gemini the clicked message's buttons are
\* gone.
AckComesFirst ==
    /\ \A h \in BagToSet(handlers) :
          /\ AckedFirst(h.fn, h.effects)
          /\ (h.fn # "handle_cancel_workflow" /\ h.pc = "run") =>
                Buttons(MsgAt(h.msg).kind) = {}
    /\ \A e \in ended : AckedFirst(e.fn, e.effects)
    /\ \A c \in agentLog :
          c.prompt \in {"fix", "commit"} => Buttons(MsgAt(c.msg).kind) = {}

\* C18's case: a handler that raised on its payload and a fix handler that
\* went through
HandlersEnded ==
    /\ \E e \in ended : e.outcome = "raised" /\ e.effects = <<"ack">>
    /\ \E e \in ended :
          e.effects = <<"ack", "chat_update", "gemini.run", "git status", "chat_postMessage">>

----------------------------------------------------------------------------
(* _execute_with_fallback on its own *)

\* the longest chain tried
MaxChain == 3

FallbackNames == <<"fb1", "fb2", "fb3", "fb4", "fb5">>

\* GEMINI_PRO_FALLBACK_MODEL naming n models: "fb1, fb2, ..."
RECURSIVE FallbackVar(_)
FallbackVar(n) ==
    IF n = 0 THEN <<>>
    ELSE IF n = 1 THEN <<FallbackNames[1]>>
    ELSE FallbackVar(n - 1) \o <<",", "sp", FallbackNames[n]>>

\* the pro chain of n models that GeminiAgent.__init__ builds
Chain(n) ==
    GetModelList([GEMINI_PRO_FALLBACK_MODEL |-> FallbackVar(n - 1)],
                 "GEMINI_PRO_MODEL", <<"gemini-3-pro-preview">>,
                 "GEMINI_PRO_FALLBACK_MODEL")

\* what one gemini process may do
ExecOutcomes ==
    {Outcome(Exit0, out, <<"w">>, <<>>) : out \in {<<"c">>, <<"sp", "d", "nl">>}}
    \cup {Outcome(NonZero, out, err, <<>>) :
             out \in {<<>>, <<"c">>, <<"d", "nl">>},
             err \in {<<>>, <<"e">>, <<"sp", "f">>}}
    \cup {Outcome(Raises, <<>>, <<>>, <<"x">>)}

\* a call of _execute_with_fallback: the chain, and what each model would do
ExecCall(n, outcomes) ==
    [fn |-> "execute", models |-> Chain(n), outcomes |-> outcomes]

\* the workflow's variables while a function is applied on its own
Idle ==
    /\ transcript = <<>>
    /\ fs = [repo \in Repos |-> NoProject]
    /\ alerts = {}
    /\ handlers = EmptyBag
    /\ clicked = 0
    /\ stages = <<>>
    /\ agentLog = {}
    /\ ended = {}
    /\ gitLog = <<>>

InitExec ==
    /\ Idle
    /\ \E n \in 1..MaxChain : \E o \in [1..n -> ExecOutcomes] :
          call = <<ExecCall(n, o)>>
    /\ ret = <<>>

ApplyExecute ==
    /\ call # <<>>
    /\ call[1].fn = "execute"
    /\ ret = <<>>
    /\ ret' = <<ExecuteWithFallback(call[1].models, call[1].outcomes)>>
    /\ UNCHANGED <<transcript, fs, alerts, handlers, clicked, stages, agentLog, ended,
                   gitLog, call>>

SpecExec == InitExec /\ [][ApplyExecute]_vars

AllExit(kind) ==
    \A i \in DOMAIN call[1].outcomes : call[1].outcomes[i].kind = kind

\* C9: a chain of N models that all exit non-zero is run through in order, all
\* N of them, and the call returns the (stripped) stdout and stderr of the
\* N-th.
ExhaustionReturnsLastFailure ==
    (ret # <<>> /\ AllExit(NonZero)) =>
        LET n == Len(call[1].models)
        IN  /\ ret[1].invoked = call[1].models
            /\ ret[1].stdout = Strip(call[1].outcomes[n].stdout)
            /\ ret[1].stderr = Strip(call[1].outcomes[n].stderr)

\* C9's case: two or more models all failed, the last unlike the first
ExhaustedChainReturned ==
    /\ ret # <<>>
    /\ AllExit(NonZero)
    /\ Len(call[1].models) >= 2
    /\ LET n == Len(call[1].models)
       IN  /\ Strip(call[1].outcomes[n].stdout) # Strip(call[1].outcomes[1].stdout)
           /\ Strip(call[1].outcomes[n].stderr) # Strip(call[1].outcomes[1].stderr)
           /\ call[1].outcomes[n].stdout # <<>>

\* the first model of the call to exit 0, 0 when none does
FirstSuccess ==
    LET o == call[1].outcomes
        ks == {k \in DOMAIN o : o[k].kind = Exit0 /\ \A j \in 1..(k - 1) : o[j].kind # Exit0}
    IN  IF ks = {} THEN 0 ELSE CHOOSE k \in ks : TRUE

\* C10: when model k is the first to exit 0, models 1..k are run in order and
\* no other, and the call returns model k's (stripped) stdout.
SuccessShortCircuits ==
    (ret # <<>> /\ FirstSuccess > 0) =>
        /\ ret[1].invoked = SubSeq(call[1].models, 1, FirstSuccess)
        /\ ret[1].stdout = Strip(call[1].outcomes[FirstSuccess].stdout)

\* C10's case: a model that is neither the first nor the last of the chain is
\* the first to exit 0
MiddleModelSucceeded ==
    /\ ret # <<>>
    /\ FirstSuccess > 1
    /\ FirstSuccess < Len(call[1].models)

----------------------------------------------------------------------------
(* run and summarize on their own *)

\* the longest chain of either role
MaxRunChain == 2

\* the flash chain of n models that GeminiAgent.__init__ builds
FlashChain(n) ==
    GetModelList([GEMINI_FLASH_FALLBACK_MODEL |-> FallbackVar(n - 1)],
                 "GEMINI_FLASH_MODEL", <<"gemini-3-flash-preview">>,
                 "GEMINI_FLASH_FALLBACK_MODEL")

\* what a gemini process given the prompt may do: answer, answer nothing,
\* answer after an opener line, print only an opener line, print a text that
\* begins like run's own error text, or fail with or without output
RunOutcomes ==
    {Outcome(Exit0, <<"c">>, <<>>, <<>>),
     Outcome(Exit0, <<>>, <<>>, <<>>),
     Outcome(Exit0, <<"op", "c", "nl", "c">>, <<>>, <<>>),
     Outcome(Exit0, <<"op", "c">>, <<>>, <<>>),
     Outcome(Exit0, <<"Error output:", "c">>, <<>>, <<>>),
     Outcome(NonZero, <<>>, <<"e">>, <<>>),
     Outcome(NonZero, <<"c">>, <<"e">>, <<>>),
     Outcome(NonZero, <<>>, <<>>, <<>>),
     Outcome(Raises, <<>>, <<>>, <<"x">>)}

\* what a gemini process given the summary prompt may do
SummaryOutcomes ==
    {Outcome(Exit0, <<"s">>, <<>>, <<>>),
     Outcome(Exit0, <<>>, <<>>, <<>>),
     Outcome(NonZero, <<>>, <<"e">>, <<>>),
     Outcome(NonZero, <<"p">>, <<"e">>, <<>>),
     Outcome(Raises, <<>>, <<>>, <<"x">>)}

\* a call of run: the two chains, and what each model would do
RunCall(n, po, k, fo) ==
    [fn |-> "run", pro_models |-> Chain(n), pro_outcomes |-> po,
     flash_models |-> FlashChain(k), flash_outcomes |-> fo]

InitRun ==
    /\ Idle
    /\ \E n \in 1..MaxRunChain, k \in 1..MaxRunChain :
          \E po \in [1..n -> RunOutcomes], fo \in [1..k -> SummaryOutcomes] :
              call = <<RunCall(n, po, k, fo)>>
    /\ ret = <<>>

ApplyRun ==
    /\ call # <<>>
    /\ call[1].fn = "run"
    /\ ret = <<>>
    /\ ret' = <<GeminiRun(call[1].pro_models, call[1].pro_outcomes,
                          call[1].flash_models, call[1].flash_outcomes)>>
    /\ UNCHANGED <<transcript, fs, alerts, handlers, clicked, stages, agentLog, ended,
                   gitLog, call>>

SpecRun == InitRun /\ [][ApplyRun]_vars

\* C11: when the summary prompt was run and every model of the flash chain
\* failed, run returns a text that begins "Summarization failed: ".
SummarizationFailureIsExplicit ==
    (/\ ret # <<>>
     /\ ret[1].flash # <<>>
     /\ \A i \in DOMAIN call[1].flash_outcomes :
            call[1].flash_outcomes[i].kind # Exit0) =>
        StartsWith(ret[1].text, SummarizationFailedPrefix)

\* the primary chain's output after preamble stripping, and its error text
RawStdout ==
    StripPreamble(ExecuteWithFallback(call[1].pro_models, call[1].pro_outcomes).stdout)
PrimaryStderr ==
    ExecuteWithFallback(call[1].pro_models, call[1].pro_outcomes).stderr

\* C17: run runs the summary prompt exactly when the primary output is not
\* empty after preamble stripping; when it is empty run returns
\* "Error output:\n" and the error text if there is one, the fixed no-output
\* text otherwise.
SummarizesIffOutput ==
    ret # <<>> =>
        /\ (ret[1].flash # <<>>) <=> (RawStdout # <<>>)
        /\ RawStdout = <<>> =>
              ret[1].text = (IF PrimaryStderr # <<>>
                             THEN ErrorOutputPrefix \o <<"nl">> \o PrimaryStderr
                             ELSE NoOutputText)

----------------------------------------------------------------------------
(* safe_truncate on its own *)

\* the longest text and the largest limit tried: the marker is 19 long
MaxText == 24
MaxLimit == 24

\* a text of n characters
TextOfLen(n) == [i \in 1..n |-> "c"]

TruncateCalls ==
    {[fn |-> "truncate", text |-> TextOfLen(n), limit |-> limit] :
        n \in 0..MaxText, limit \in 0..MaxLimit}

InitTruncate ==
    /\ Idle
    /\ call \in {<<c>> : c \in TruncateCalls}
    /\ ret = <<>>

ApplyTruncate ==
    /\ call # <<>>
    /\ call[1].fn = "truncate"
    /\ ret = <<>>
    /\ ret' = <<SafeTruncate(call[1].text, call[1].limit)>>
    /\ UNCHANGED <<transcript, fs, alerts, handlers, clicked, stages, agentLog, ended,
                   gitLog, call>>

SpecTruncate == InitTruncate /\ [][ApplyTruncate]_vars

EndsWith(s, suffix) ==
    /\ Len(s) >= Len(suffix)
    /\ SubSeq(s, Len(s) - Len(suffix) + 1, Len(s)) = suffix

\* C12: for every text and limit the result of safe_truncate is at most limit
\* long; it is the text when the text is at most limit long and ends with the
\* whole marker otherwise.
TruncateFitsLimit ==
    ret # <<>> =>
        /\ Len(ret[1]) <= call[1].limit
        /\ Len(call[1].text) <= call[1].limit => ret[1] = call[1].text
        /\ Len(call[1].text) > call[1].limit => EndsWith(ret[1], TruncationSuffix)

----------------------------------------------------------------------------
(* _strip_preamble on its own *)

\* the longest text tried
MaxStripLen == 4

RECURSIVE TextsUpTo(_)
TextsUpTo(n) ==
    IF n = 0 THEN {<<>>}
    ELSE LET shorter == TextsUpTo(n - 1)
         IN  shorter \cup {Append(t, ch) : t \in shorter, ch \in {"nl", "sp", "op", "c"}}

StripCalls == {[fn |-> "strip", text |-> t] : t \in TextsUpTo(MaxStripLen)}

InitStrip ==
    /\ Idle
    /\ call \in {<<c>> : c \in StripCalls}
    /\ ret = <<>>

ApplyStrip ==
    /\ call # <<>>
    /\ call[1].fn = "strip"
    /\ ret = <<>>
    /\ ret' = <<StripPreamble(call[1].text)>>
    /\ UNCHANGED <<transcript, fs, alerts, handlers, clicked, stages, agentLog, ended,
                   gitLog, call>>

SpecStrip == InitStrip /\ [][ApplyStrip]_vars

\* a line of the preamble: blank, or beginning with an opener
PreambleLine(line) == Strip(line) = <<>> \/ Head(Strip(line)) = "op"

\* the lines of the text that are no preamble lines
ContentLines == {i \in DOMAIN SplitLines(call[1].text) : ~PreambleLine(SplitLines(call[1].text)[i])}

\* C13: the result of _strip_preamble is the text from its first line that is
\* neither blank nor begins with an opener, trimmed; that is the whole text,
\* trimmed, when its first non-blank line begins with no opener; and it is
\* empty when every line is blank or begins with an opener.
PreambleIsStripped ==
    ret # <<>> =>
        LET lines == SplitLines(call[1].text)
        IN  IF ContentLines = {} THEN ret[1] = <<>>
            ELSE LET k == CHOOSE i \in ContentLines : \A j \in ContentLines : i <= j
                 IN  /\ ret[1] = Strip(JoinLines(SubSeq(lines, k, Len(lines))))
                     /\ (\A j \in 1..(k - 1) : Strip(lines[j]) = <<>>) =>
                            ret[1] = Strip(JoinLines(lines))

----------------------------------------------------------------------------
(* The section texts on their own *)

\* how far around SLACK_TEXT_LIMIT the lengths tried go
MaxOver == 20

\* the lengths of the plan and of the fix result, and of git status -s
SectionLens ==
    {0, 1} \cup ((SLACK_TEXT_LIMIT - MaxOver)..(SLACK_TEXT_LIMIT + MaxOver))
StatusLens == {0, 4, 40}

SectionCalls ==
    {[fn |-> "plan_section", plan_result |-> TextOfLen(n)] : n \in SectionLens}
    \cup {[fn |-> "fix_section", fix_result |-> TextOfLen(n), git_status |-> TextOfLen(k)] :
              n \in SectionLens, k \in StatusLens}

InitSection ==
    /\ Idle
    /\ call \in {<<c>> : c \in SectionCalls}
    /\ ret = <<>>

\* create_approval_blocks: the text of its section
ApplyPlanSection ==
    /\ call # <<>>
    /\ call[1].fn = "plan_section"
    /\ ret = <<>>
    /\ ret' = <<ApprovalSectionText(call[1].plan_result)>>
    /\ UNCHANGED <<transcript, fs, alerts, handlers, clicked, stages, agentLog, ended,
                   gitLog, call>>

\* handle_approve_fix: result_text, the text of the section it posts
ApplyFixSection ==
    /\ call # <<>>
    /\ call[1].fn = "fix_section"
    /\ ret = <<>>
    /\ ret' = <<FixResultText(call[1].fix_result, call[1].git_status)>>
    /\ UNCHANGED <<transcript, fs, alerts, handlers, clicked, stages, agentLog, ended,
                   gitLog, call>>

SpecSection == InitSection /\ [][ApplyPlanSection \/ ApplyFixSection]_vars

\* len() of the literals that the model keeps as one token
LiteralLen ==
    [PlanCreated |-> 17, MayIFix |-> 33, FixDone |-> 14, ChangedFiles |-> 12, fence |-> 3]

\* len(text)
CharLen(text) ==
    LET Extra(tok) == Cardinality({i \in DOMAIN text : text[i] = tok}) * (LiteralLen[tok] - 1)
    IN  Len(text) + Extra("PlanCreated") + Extra("MayIFix") + Extra("FixDone")
            + Extra("ChangedFiles") + Extra("fence")

\* C20: the plan section's text and the fix result section's text are at most
\* SLACK_TEXT_LIMIT long.
SectionTextsFitLimit ==
    ret # <<>> => CharLen(ret[1]) <= SLACK_TEXT_LIMIT

----------------------------------------------------------------------------
(* build_thread_context on its own *)

\* the longest history tried
MaxHistory == 3

\* the messages of a thread: the bot's or a person's; a text, a blank one, a
\* processing indicator, a command, a command and nothing else
HistoryMessages ==
    {[user |-> user, text |-> text] :
        user \in {BotUserId, "U1"},
        text \in {<<"c">>, <<"sp">>, <<"hourglass", "c">>, <<"!ghost", "sp", "d">>,
                  <<"!ghost", "sp">>}}

RECURSIVE HistoriesUpTo(_)
HistoriesUpTo(n) ==
    IF n = 0 THEN {<<>>}
    ELSE LET shorter == HistoriesUpTo(n - 1)
         IN  shorter \cup {Append(h, msg) : h \in shorter, msg \in HistoryMessages}

\* conversations_replies gives the messages, or raises
ContextCalls ==
    {[fn |-> "context", history |-> [ok |-> TRUE, messages |-> h]] :
        h \in HistoriesUpTo(MaxHistory)}
    \cup {[fn |-> "context", history |-> [ok |-> FALSE, messages |-> <<>>]]}

InitContext ==
    /\ Idle
    /\ call \in {<<c>> : c \in ContextCalls}
    /\ ret = <<>>

ApplyContext ==
    /\ call # <<>>
    /\ call[1].fn = "context"
    /\ ret = <<>>
    /\ ret' = <<BuildThreadContext(call[1].history, BotUserId)>>
    /\ UNCHANGED <<transcript, fs, alerts, handlers, clicked, stages, agentLog, ended,
                   gitLog, call>>

SpecContext == InitContext /\ [][ApplyContext]_vars

\* the turn a message stands for, as its "Speaker: text" line: none (<<>>) for
\* a blank message, a processing indicator or a command with nothing after it
TurnOf(msg) ==
    LET text == Strip(msg.text)
        said == IF GhostMatch(text) THEN Strip(Tail(text)) ELSE text
    IN  IF text = <<>> THEN <<>>
        ELSE IF msg.user = BotUserId
             THEN (IF Head(text) = "hourglass" THEN <<>> ELSE <<"Assistant: ">> \o text)
             ELSE (IF said = <<>> THEN <<>> ELSE <<"User: ">> \o said)

IsTurn(line) == line # <<>>

\* the turns of the history of the call, oldest first
Turns ==
    SelectSeq([i \in DOMAIN call[1].history.messages |->
                   TurnOf(call[1].history.messages[i])], IsTurn)

UserTurns == {i \in DOMAIN Turns : Head(Turns[i]) = "User: "}

\* a sequence without its i-th element
Without(seq, i) == SubSeq(seq, 1, i - 1) \o SubSeq(seq, i + 1, Len(seq))

\* C14 as stated, for the histories a context is built from (more than one
\* message): the context is the turns of the history in order, without the
\* most recent User turn.
ContextExcludesLastUserTurn ==
    (ret # <<>> /\ call[1].history.ok /\ Len(call[1].history.messages) > 1) =>
        ret[1] = JoinLines(IF UserTurns = {} THEN Turns
                           ELSE Without(Turns, CHOOSE i \in UserTurns :
                                                   \A j \in UserTurns : j <= i))

\* C14, amended: for a history of more than one message the context is the
\* turns in order without the final turn when a User spoke it (a User turn
\* that an Assistant turn follows stays); for a history of at most one
\* message, or one that could not be fetched, it is empty.
ContextDropsTrailingUserTurn ==
    ret # <<>> =>
        IF call[1].history.ok /\ Len(call[1].history.messages) > 1
        THEN ret[1] = JoinLines(IF Len(Turns) \in UserTurns
                                THEN SubSeq(Turns, 1, Len(Turns) - 1)
                                ELSE Turns)
        ELSE ret[1] = <<>>

\* C14's case: a history of User, Assistant, User turns gave the first two
ContextBuilt ==
    /\ ret # <<>>
    /\ Len(Turns) = 3
    /\ UserTurns = {1, 3}
    /\ ret[1] = JoinLines(SubSeq(Turns, 1, 2))

----------------------------------------------------------------------------
(* The dispatcher: message events of every kind, no button clicked *)

\* how many message events are received
MaxDispatch == 2

\* alerts for two projects whose names end alike, one naming its project only
\* in an attachment's fallback; a person's command; a command that a bot
\* posts in the Snyk channel and that names a project; the command's word
\* with nothing after it; a bot's message naming no project; a person's
\* message in the Snyk channel; an alert's text elsewhere
DispatchEvents ==
    {Event(AlertText(<<"org", "app">>), NoAttachment, <<"C_SNYK">>, TRUE),
     Event(<<"c">>, <<[fallback |-> AlertText(<<"other", "app">>), text |-> <<>>]>>,
           <<"C_SNYK">>, TRUE),
     Event(<<"!ghost", "sp", "c">>, NoAttachment, <<"C_OTHER">>, FALSE),
     Event(<<"!ghost", "sp">> \o AlertText(<<"org", "app">>), NoAttachment,
           <<"C_SNYK">>, TRUE),
     Event(<<"!ghost">>, NoAttachment, <<"C_OTHER">>, FALSE),
     Event(<<"c">>, NoAttachment, <<"C_SNYK">>, TRUE),
     Event(AlertText(<<"org", "app">>), NoAttachment, <<"C_SNYK">>, FALSE),
     Event(AlertText(<<"org", "app">>), NoAttachment, <<"C_OTHER">>, TRUE)}

\* the projects root may hold a clone from an earlier run
InitDispatch ==
    /\ transcript = <<>>
    /\ fs \in [Repos -> {NoProject, <<"org", "app">>, <<"other", "app">>}]
    /\ alerts = {}
    /\ handlers = EmptyBag
    /\ clicked = 0
    /\ stages = <<>>
    /\ agentLog = {}
    /\ ended = {}
    /\ gitLog = <<>>
    /\ call = <<>>
    /\ ret = <<>>

NextDispatch ==
    \/ \E event \in DispatchEvents : AlertCount < MaxDispatch /\ MessageEvent(event)
    \/ \E a \in alerts, git_ok \in BOOLEAN : AlertSetup(a, git_ok)
    \/ \E a \in alerts, r \in WorkflowRuns : AlertPlan(a, r)
    \/ \E a \in alerts, r \in WorkflowRuns : GhostRun(a, r)

SpecDispatch == InitDispatch /\ [][NextDispatch]_vars

\* the event whose message opened thread t
EventOf(t) == transcript[t][1].event[1]

\* what the alert path does in thread t: git, the plan prompt, its messages
AlertEffects(t) ==
    \/ gitLog[t] # <<>>
    \/ \E i \in DOMAIN transcript[t] :
          transcript[t][i].posted \in {"investigating", "approval", "plan_error"}
    \/ \E c \in agentLog : c.thread = t /\ c.prompt = "plan"
    \/ \E a \in alerts : a.thread = t /\ a.pc \in {"setup", "plan"}

\* what the direct-instruction path does in thread t
GhostEffects(t) ==
    \/ \E i \in DOMAIN transcript[t] : transcript[t][i].posted = "processing"
    \/ \E c \in agentLog : c.thread = t /\ c.prompt = "ghost"
    \/ \E a \in alerts : a.thread = t /\ a.pc = "ghost"

\* C16: a command goes to the direct-instruction path and never to the alert
\* path, whatever its channel and sender; another message goes to the alert
\* path only in the alert channel from a bot; any other message has no
\* effect: no message posted, no gemini call, no git command.
RoutesToAtMostOnePath ==
    \A t \in Threads :
        LET event == EventOf(t)
            command == GhostMatch(event.text)
            from_snyk == event.channel = SnykChannelId /\ event.bot
        IN  /\ command => GhostEffects(t) /\ ~AlertEffects(t)
            /\ ~command => ~GhostEffects(t)
            /\ AlertEffects(t) => ~command /\ from_snyk
            /\ (~command /\ ~from_snyk) =>
                  /\ Len(transcript[t]) = 1
                  /\ \A c \in agentLog : c.thread # t
                  /\ \A a \in alerts : a.thread # t

\* C16's case: a command that a bot posted in the alert channel, naming a
\* project, was answered, and an alert was handled too
CommandInAlertChannelAnswered ==
    /\ \E t \in Threads :
          /\ GhostMatch(EventOf(t).text)
          /\ EventOf(t).channel = SnykChannelId
          /\ EventOf(t).bot
          /\ ExtractSnykProject(EventOf(t)) # <<>>
          /\ transcript[t][2].kind = "answer"
    /\ \E t \in Threads : AlertEffects(t)

\* C19: the working directory in a case's approval controls holds a clone of
\* the case's own project, and the controls of two different projects name
\* different working directories.
WorkingDirIsOwnClone ==
    \A m \in MsgIds :
        MsgAt(m).posted = "approval" =>
            LET data == JsonLoads(MsgAt(m).sent).dict
            IN  /\ data["dir"] = TargetDir(data["project"])
                /\ fs[RepoName(data["project"])] = data["project"]
                /\ \A n \in MsgIds :
                      (/\ MsgAt(n).posted = "approval"
                       /\ JsonLoads(MsgAt(n).sent).dict["project"] # data["project"]) =>
                          JsonLoads(MsgAt(n).sent).dict["dir"] # data["dir"]

====
